---- MODULE Spec2Model ----
(***************************************************************************)
(* Model of spmimage/linear_model/admm.py: the ADMM solver for the         *)
(* generalized lasso (_soft_threshold, _cost_function, _admm).             *)
(*                                                                         *)
(* Real numbers are modelled exactly.  A real that the code computes with  *)
(* +, -, *, / from the inputs is a rational <<num, den>> in lowest terms   *)
(* with den > 0.  The only irrational the code produces is the 2-norm in   *)
(* _cost_function; a cost is kept as [sq, lin] meaning sqrt(sq) + lin, and *)
(* the test gap < tol is decided exactly by squaring.                      *)
(* Arrays are sequences: a vector is a sequence of rationals, a matrix a   *)
(* sequence of rows.  Indices k and t are 0-based as in the code.          *)
(***************************************************************************)
EXTENDS Integers, Sequences, FiniteSets, TLC

\* ------------------------------------------------------------------------
\* Bounds of the model
\* ------------------------------------------------------------------------
MaxIterBound == 3
MaxTargets == 2

\* ------------------------------------------------------------------------
\* Exact rational arithmetic (the float operators of the code)
\* ------------------------------------------------------------------------
IAbs(i) == IF i < 0 THEN -i ELSE i

RECURSIVE GCD(_, _)
GCD(a, b) == IF b = 0 THEN a ELSE GCD(b, a % b)

LCM(a, b) == (a \div GCD(a, b)) * b

Rat(n, d) ==
    LET g == GCD(IAbs(n), IAbs(d))
        s == IF d < 0 THEN -1 ELSE 1
    IN  <<(s * n) \div g, (s * d) \div g>>

RI(i) == <<i, 1>>
RZero == <<0, 1>>

RAdd(a, b) ==
    LET l == LCM(a[2], b[2])
    IN  Rat(a[1] * (l \div a[2]) + b[1] * (l \div b[2]), l)

RNeg(a) == <<-a[1], a[2]>>
RSub(a, b) == RAdd(a, RNeg(b))

RMul(a, b) ==
    LET g1 == GCD(IAbs(a[1]), b[2])
        g2 == GCD(IAbs(b[1]), a[2])
    IN  Rat((a[1] \div g1) * (b[1] \div g2), (a[2] \div g2) * (b[2] \div g1))

RDiv(a, b) == RMul(a, Rat(b[2], b[1]))

RSign(a) == IF a[1] > 0 THEN 1 ELSE IF a[1] < 0 THEN -1 ELSE 0
RAbs(a) == <<IAbs(a[1]), a[2]>>
RLt(a, b) == RSign(RSub(a, b)) < 0
RLe(a, b) == RSign(RSub(a, b)) <= 0

\* ------------------------------------------------------------------------
\* numpy array operations used by the code
\* ------------------------------------------------------------------------
\* an array is held with its elements evaluated (a tuple)
Arr(f) == f \o <<>>

NRows(M) == Len(M)
NCols(M) == Len(M[1])

Col(M, j) == Arr([i \in 1..Len(M) |-> M[i][j]])
SetCol(M, j, v) == Arr([i \in 1..Len(M) |-> [M[i] EXCEPT ![j] = v[i]]])

Transpose(M) == Arr([j \in 1..NCols(M) |-> Arr([i \in 1..NRows(M) |-> M[i][j]])])

RECURSIVE VSum(_)
VSum(v) == IF Len(v) = 0 THEN RZero ELSE RAdd(v[1], VSum(Tail(v)))

VScale(c, v) == Arr([i \in 1..Len(v) |-> RMul(c, v[i])])
VDivS(v, c) == Arr([i \in 1..Len(v) |-> RDiv(v[i], c)])

\* numpy broadcasting of two 1-d operands: lengths equal, or one of them 1
BroadcastOK(a, b) == Cardinality({Len(a), Len(b)} \ {1}) <= 1
BLen(a, b) == IF Len(a) >= Len(b) THEN Len(a) ELSE Len(b)
BAt(a, i) == IF Len(a) = 1 THEN a[1] ELSE a[i]
VAdd(a, b) == Arr([i \in 1..BLen(a, b) |-> RAdd(BAt(a, i), BAt(b, i))])
VSub(a, b) == Arr([i \in 1..BLen(a, b) |-> RSub(BAt(a, i), BAt(b, i))])

\* ndarray.dot of a 2-d array with a 1-d array: needs NCols(M) = Len(v)
DotOK(M, v) == NCols(M) = Len(v)
Dot(M, v) == Arr([i \in 1..NRows(M) |->
                 VSum([j \in 1..Len(v) |-> RMul(M[i][j], v[j])])])

MatMul(A, B) == Arr([i \in 1..NRows(A) |-> Arr([j \in 1..NCols(B) |->
                    VSum([l \in 1..NCols(A) |-> RMul(A[i][l], B[l][j])])])])
MatScale(c, A) == Arr([i \in 1..NRows(A) |-> VScale(c, A[i])])
MatDivS(A, c) == Arr([i \in 1..NRows(A) |-> VDivS(A[i], c)])
MatAdd(A, B) == Arr([i \in 1..NRows(A) |-> Arr([j \in 1..NCols(A) |->
                    RAdd(A[i][j], B[i][j])])])
Zeros(r, c) == Arr([i \in 1..r |-> Arr([j \in 1..c |-> RZero])])

\* determinant and inverse of a square matrix (np.linalg.inv), by cofactors
DropAt(s, j) == Arr([i \in 1..(Len(s) - 1) |-> IF i < j THEN s[i] ELSE s[i + 1]])
Minor(M, r, c) == Arr([i \in 1..(Len(M) - 1) |-> DropAt(DropAt(M, r)[i], c)])

RECURSIVE Det(_)
Det(M) ==
    IF Len(M) = 1 THEN M[1][1]
    ELSE VSum([j \in 1..Len(M) |->
                 RMul(IF j % 2 = 1 THEN M[1][j] ELSE RNeg(M[1][j]),
                      Det(Minor(M, 1, j)))])

Cofactor(M, i, j) ==
    LET d == IF Len(M) = 1 THEN RI(1) ELSE Det(Minor(M, i, j))
    IN  IF (i + j) % 2 = 0 THEN d ELSE RNeg(d)

Singular(M) == Det(M) = RZero
Inv(M) == Arr([i \in 1..Len(M) |-> Arr([j \in 1..Len(M) |->
              RDiv(Cofactor(M, j, i), Det(M))])])

\* np.squeeze acts on the shape: the axes of length 1 are removed
Shape2(M) == <<NRows(M), NCols(M)>>
SqueezeShape(sh) == SelectSeq(sh, LAMBDA d : d # 1)

\* ------------------------------------------------------------------------
\* _soft_threshold
\* ------------------------------------------------------------------------
\* variant: the threshold is subtracted whatever the sign of x
SoftThreshold1_mut(x, thresh) ==
    IF RLe(RAbs(x), thresh) THEN RZero
    ELSE RSub(x, thresh)

SoftThreshold1(x, thresh) ==
    IF RLe(RAbs(x), thresh) THEN RZero
    ELSE RSub(x, RMul(thresh, RI(RSign(x))))

_soft_threshold(v, thresh) ==
    Arr([i \in 1..Len(v) |-> SoftThreshold1(v[i], thresh)])

\* ------------------------------------------------------------------------
\* _cost_function and the convergence test
\* ------------------------------------------------------------------------
\* norm(y - X.dot(w)) / n_samples + alpha * sum(abs(z)), as sqrt(sq) + lin
_cost_function(Xm, yv, w, z, a) ==
    LET r == VSub(yv, Dot(Xm, w))
        n == NRows(Xm)
    IN  [sq  |-> RDiv(VSum([i \in 1..Len(r) |-> RMul(r[i], r[i])]), RI(n * n)),
         lin |-> RMul(a, VSum([i \in 1..Len(z) |-> RAbs(z[i])]))]

\* sign of r + u * sqrt(a), for a >= 0
SignLin(r, u, a) ==
    IF RSign(u) = 0 \/ RSign(a) = 0 THEN RSign(r)
    ELSE IF RSign(u) > 0
         THEN IF RSign(r) >= 0 THEN 1
              ELSE RSign(RSub(RMul(RMul(u, u), a), RMul(r, r)))
         ELSE IF RSign(r) <= 0 THEN -1
              ELSE RSign(RSub(RMul(r, r), RMul(RMul(u, u), a)))

\* sign of sqrt(a) - sqrt(b) + d, for a, b >= 0
SqrtSign(a, b, d) ==
    IF SignLin(d, RI(1), a) < 0 THEN -1
    ELSE SignLin(RSub(RAdd(a, RMul(d, d)), b), RMul(RI(2), d), a)

\* gap = np.abs(cost - pre_cost); gap < tol
GapBelow(c, pre, eps) ==
    LET d == RSub(c.lin, pre.lin)
    IN  /\ SqrtSign(c.sq, pre.sq, RSub(d, eps)) < 0
        /\ SqrtSign(c.sq, pre.sq, RAdd(d, eps)) > 0

\* ------------------------------------------------------------------------
\* Inputs of a solve
\* ------------------------------------------------------------------------
RM(M) == Arr([i \in 1..Len(M) |-> Arr([j \in 1..Len(M[1]) |-> RI(M[i][j])])])

\* design matrices (n x p), with the transforms D (m x p) tried with each
XSet == { <<<<1>>>>,
          <<<<1>>, <<1>>>>,
          <<<<1, 1>>, <<1, -1>>>>,
          <<<<1, 0>>>> }
DSet(p) == IF p = 1
           THEN { <<<<1>>>>, <<<<0>>>>, <<<<1>>, <<1>>>> }
           ELSE { <<<<1, 0>>, <<0, 1>>>>,
                  <<<<0, 0>>, <<0, 0>>>>,
                  <<<<1, -1>>>> }
YVals == {-2, 1}
YSet(n) == UNION { [1..n -> [1..kk -> YVals]] : kk \in 1..MaxTargets }
AlphaSet == { RI(0), RI(1) }
RhoSet == { RI(1), RI(2) }
TolSet == { Rat(1, 2), RI(2) }

\* X .. max_iter: the arguments of _admm; w_t .. pre_cost: its locals;
\* pc: the statement about to run; err: the exception raised, if any;
\* ret: the returned pair; log: history of the values written by lines 55,
\* 58, 59, 60 and 64, in order, each with the k and t it was written at;
\* st: a call of _soft_threshold on its own (used by SpecST only).
VARIABLES X, y, D, alpha, rho, tol, max_iter,
          w_t, z_t, h_t, inv_matrix, threshold, n_iter_, k, t,
          cost, pre_cost, pc, err, ret, log, st

vars == <<X, y, D, alpha, rho, tol, max_iter,
          w_t, z_t, h_t, inv_matrix, threshold, n_iter_, k, t,
          cost, pre_cost, pc, err, ret, log, st>>

\* what no statement of _admm assigns: its arguments, and the separate call
\* of _soft_threshold
inputs == <<X, y, D, alpha, rho, tol, max_iter, st>>

None == <<>>
NoCost == [sq |-> RZero, lin |-> RZero]

n_samples == NRows(X)
n_features == NCols(X)
n_targets == NCols(y)

Init ==
    /\ X \in { RM(M) : M \in XSet }
    /\ y \in { RM(M) : M \in YSet(NRows(X)) }
    /\ D \in { RM(M) : M \in DSet(NCols(X)) }
    /\ alpha \in AlphaSet
    /\ rho \in RhoSet
    /\ tol \in TolSet
    /\ max_iter \in 1..MaxIterBound
    /\ w_t = None /\ z_t = None /\ h_t = None
    /\ inv_matrix = None /\ threshold = RZero
    /\ n_iter_ = <<>> /\ k = 0 /\ t = 0
    /\ cost = NoCost /\ pre_cost = NoCost
    /\ pc = "init" /\ err = "none" /\ ret = None /\ log = <<>>
    /\ st = None

\* ------------------------------------------------------------------------
\* The statements of _admm
\* ------------------------------------------------------------------------
ycol(j) == Col(y, j + 1)
wcol(j) == Col(w_t, j + 1)
zcol(j) == Col(z_t, j + 1)
\* variant: the dual of the first target is read for every target
hcol_mut(j) == Col(h_t, 1)
hcol(j) == Col(h_t, j + 1)

Event(op, val) == [op |-> op, k |-> k, t |-> t, val |-> val]

\* an ndarray as returned: its shape and its elements in row-major order
Flatten(M) == Arr([i \in 1..(NRows(M) * NCols(M)) |->
                  M[((i - 1) \div NCols(M)) + 1][((i - 1) % NCols(M)) + 1]])
Squeeze(M) == [shape |-> SqueezeShape(Shape2(M)), data |-> Flatten(M)]

W0 == MatDivS(MatMul(Transpose(X), y), RI(n_samples))
Z0(W) == MatMul(D, W)
H0(W, Z) == Zeros(NRows(W), NCols(W))

\* the columns of target j in W0, Z0, H0
InitW(j) == Col(W0, j + 1)
InitZ(j) == Col(Z0(W0), j + 1)
InitH(j) == Arr([i \in 1..n_features |-> RZero])

SystemMatrix == MatAdd(MatDivS(MatMul(Transpose(X), X), RI(n_samples)),
                       MatScale(rho, MatMul(Transpose(D), D)))
\* variant: alpha is used as the threshold, not alpha / rho
Threshold_mut(a, r) == a
Threshold(a, r) == RDiv(a, r)

\* line 58: inv_matrix.dot(X.T.dot(y) / n + rho * D.T.dot(z - h / rho))
WShapesOK(zc, hc) ==
    /\ BroadcastOK(zc, VDivS(hc, rho))
    /\ DotOK(Transpose(D), VSub(zc, VDivS(hc, rho)))
WUpdate(yc, zc, hc) ==
    Dot(inv_matrix,
        VAdd(VDivS(Dot(Transpose(X), yc), RI(n_samples)),
             VScale(rho, Dot(Transpose(D), VSub(zc, VDivS(hc, rho))))))

\* line 59: _soft_threshold(D.dot(w) + h / rho, threshold)
ZShapesOK(wc, hc) ==
    /\ BroadcastOK(Dot(D, wc), VDivS(hc, rho))
    /\ BLen(Dot(D, wc), hc) \in {NRows(z_t), 1}
ZUpdate(wc, hc) ==
    _soft_threshold(VAdd(Dot(D, wc), VDivS(hc, rho)), threshold)

\* line 60: h += rho * (D.dot(w) - z), in place
HShapesOK(wc, zc, hc) ==
    LET r == VSub(Dot(D, wc), zc)
    IN  Len(r) \in {Len(hc), 1}
HUpdate(wc, zc, hc) ==
    VAdd(hc, VScale(rho, VSub(Dot(D, wc), zc)))

\* line 66: if gap < tol
\* variant: the comparison is inverted
Converged_mut(c, pre) == ~GapBelow(c, pre, tol)
Converged(c, pre) == GapBelow(c, pre, tol)

\* line 68: the value appended to n_iter_
\* variant: the number of passes is recorded, not the last index
Recorded_mut(tt) == tt + 1
Recorded(tt) == tt

\* line 70: the array that is returned
\* variant: the primal variable is returned
Returned_mut(W, Z) == Squeeze(W)
Returned(W, Z) == Squeeze(Z)

Raise(e) ==
    /\ pc' = "raised"
    /\ err' = e
    /\ UNCHANGED <<inputs, w_t, z_t, h_t, inv_matrix, threshold, n_iter_,
                   k, t, cost, pre_cost, ret, log>>

\* lines 43-45
Initialize ==
    /\ pc = "init"
    /\ w_t' = W0
    /\ z_t' = Z0(w_t')
    /\ h_t' = H0(w_t', z_t')
    /\ pc' = "inv"
    /\ UNCHANGED <<inputs, inv_matrix, threshold, n_iter_, k, t, cost,
                   pre_cost, err, ret, log>>

\* lines 48-53: the system is inverted, the loop over the columns starts
Invert ==
    /\ pc = "inv"
    /\ ~Singular(SystemMatrix)
    /\ inv_matrix' = Inv(SystemMatrix)
    /\ threshold' = Threshold(alpha, rho)
    /\ n_iter_' = <<>>
    /\ k' = 0
    /\ pc' = "for_k"
    /\ UNCHANGED <<inputs, w_t, z_t, h_t, t, cost, pre_cost, err, ret, log>>

\* variant: a singular system is not detected and NaNs are returned
InvertSingular_mut ==
    /\ pc = "inv"
    /\ Singular(SystemMatrix)
    /\ ret' = [coef |-> [shape |-> SqueezeShape(Shape2(z_t)), data |-> "nan"],
               n_iter |-> <<>>]
    /\ pc' = "done"
    /\ UNCHANGED <<inputs, w_t, z_t, h_t, inv_matrix, threshold, n_iter_, k,
                   t, cost, pre_cost, err, log>>

\* line 48: np.linalg.inv raises LinAlgError on a singular matrix
InvertSingular ==
    /\ pc = "inv"
    /\ Singular(SystemMatrix)
    /\ Raise("LinAlgError")

\* lines 53-56: next column, its initial cost, first pass of the inner loop
InitialCost ==
    /\ pc = "for_k"
    /\ k < n_targets
    /\ cost' = _cost_function(X, ycol(k), wcol(k), zcol(k), alpha)
    /\ t' = 0
    /\ log' = Append(log, [op |-> "cost0", k |-> k, t |-> -1, val |-> cost'])
    /\ pc' = "upd_w"
    /\ UNCHANGED <<inputs, w_t, z_t, h_t, inv_matrix, threshold, n_iter_, k,
                   pre_cost, err, ret>>

\* line 58
UpdateW ==
    /\ pc = "upd_w"
    /\ WShapesOK(zcol(k), hcol(k))
    /\ LET wc == WUpdate(ycol(k), zcol(k), hcol(k))
       IN  /\ w_t' = SetCol(w_t, k + 1, wc)
           /\ log' = Append(log, Event("W", wc))
    /\ pc' = "upd_z"
    /\ UNCHANGED <<inputs, z_t, h_t, inv_matrix, threshold, n_iter_, k, t,
                   cost, pre_cost, err, ret>>

\* line 58 with operands that numpy cannot combine
UpdateWShapeError ==
    /\ pc = "upd_w"
    /\ ~WShapesOK(zcol(k), hcol(k))
    /\ Raise("ValueError")

\* variant: z is computed from the w of the previous pass
UpdateZ_mut ==
    /\ pc = "upd_z"
    /\ ZShapesOK(wcol(k), hcol(k))
    /\ LET wold == IF t = 0 THEN InitW(k) ELSE log[Len(log) - 4].val
           zc == ZUpdate(wold, hcol(k))
       IN  /\ z_t' = SetCol(z_t, k + 1, zc)
           /\ log' = Append(log, Event("Z", zc))
    /\ pc' = "upd_h"
    /\ UNCHANGED <<inputs, w_t, h_t, inv_matrix, threshold, n_iter_, k, t,
                   cost, pre_cost, err, ret>>

\* line 59 (its operands always combine once line 58 has succeeded)
UpdateZ ==
    /\ pc = "upd_z"
    /\ ZShapesOK(wcol(k), hcol(k))
    /\ LET zc == ZUpdate(wcol(k), hcol(k))
       IN  /\ z_t' = SetCol(z_t, k + 1, zc)
           /\ log' = Append(log, Event("Z", zc))
    /\ pc' = "upd_h"
    /\ UNCHANGED <<inputs, w_t, h_t, inv_matrix, threshold, n_iter_, k, t,
                   cost, pre_cost, err, ret>>

\* line 60
UpdateH ==
    /\ pc = "upd_h"
    /\ HShapesOK(wcol(k), zcol(k), hcol(k))
    /\ LET hc == HUpdate(wcol(k), zcol(k), hcol(k))
       IN  /\ h_t' = SetCol(h_t, k + 1, hc)
           /\ log' = Append(log, Event("H", hc))
    /\ pc' = "after_cost"
    /\ UNCHANGED <<inputs, w_t, z_t, inv_matrix, threshold, n_iter_, k, t,
                   cost, pre_cost, err, ret>>

\* line 60 when the increment does not have the shape of h
UpdateHShapeError ==
    /\ pc = "upd_h"
    /\ ~HShapesOK(wcol(k), zcol(k), hcol(k))
    /\ Raise("ValueError")

\* lines 63-67 and the loop header of line 56
AfterCost ==
    /\ pc = "after_cost"
    /\ pre_cost' = cost
    /\ cost' = _cost_function(X, ycol(k), wcol(k), zcol(k), alpha)
    /\ log' = Append(log, Event("cost", cost'))
    /\ IF Converged(cost', pre_cost')
       THEN /\ pc' = "append"
            /\ t' = t
       ELSE IF t + 1 < max_iter
            THEN /\ pc' = "upd_w"
                 /\ t' = t + 1
            ELSE /\ pc' = "append"
                 /\ t' = t
    /\ UNCHANGED <<inputs, w_t, z_t, h_t, inv_matrix, threshold, n_iter_, k,
                   err, ret>>

\* line 68 and the loop header of line 53
AppendIter ==
    /\ pc = "append"
    /\ n_iter_' = Append(n_iter_, Recorded(t))
    /\ k' = k + 1
    /\ pc' = "for_k"
    /\ UNCHANGED <<inputs, w_t, z_t, h_t, inv_matrix, threshold, t, cost,
                   pre_cost, err, ret, log>>

\* line 70
Return ==
    /\ pc = "for_k"
    /\ k = n_targets
    /\ ret' = [coef |-> Returned(w_t, z_t), n_iter |-> n_iter_]
    /\ pc' = "done"
    /\ UNCHANGED <<inputs, w_t, z_t, h_t, inv_matrix, threshold, n_iter_, k,
                   t, cost, pre_cost, err, log>>

Next ==
    \/ Initialize
    \/ Invert
    \/ InvertSingular
    \/ InitialCost
    \/ UpdateW
    \/ UpdateWShapeError
    \/ UpdateZ
    \/ UpdateH
    \/ UpdateHShapeError
    \/ AfterCost
    \/ AppendIter
    \/ Return

Spec == Init /\ [][Next]_vars

\* ------------------------------------------------------------------------
\* _soft_threshold called on its own
\* ------------------------------------------------------------------------
STVals == { Rat(i, 2) : i \in -4..4 }
STVecs == UNION { [1..l -> STVals] : l \in 1..2 }
STThresh == { RI(0), Rat(1, 2), RI(1), RI(2) }

VNeg(v) == Arr([i \in 1..Len(v) |-> RNeg(v[i])])

InitST ==
    /\ X = None /\ y = None /\ D = None
    /\ alpha = RZero /\ rho = RI(1) /\ tol = RI(1) /\ max_iter = 1
    /\ w_t = None /\ z_t = None /\ h_t = None
    /\ inv_matrix = None /\ threshold = RZero
    /\ n_iter_ = <<>> /\ k = 0 /\ t = 0
    /\ cost = NoCost /\ pre_cost = NoCost
    /\ pc = "idle" /\ err = "none" /\ ret = None /\ log = <<>>
    /\ st \in [at : {"call"}, x : STVecs, thresh : STThresh, out : {None},
               neg : {None}, zero : {None}]

SoftThresholdCall ==
    /\ st.at = "call"
    /\ st' = [st EXCEPT !.at = "ret",
                        !.out = _soft_threshold(st.x, st.thresh),
                        !.neg = _soft_threshold(VNeg(st.x), st.thresh),
                        !.zero = _soft_threshold(st.x, RZero)]
    /\ UNCHANGED <<X, y, D, alpha, rho, tol, max_iter, w_t, z_t, h_t,
                   inv_matrix, threshold, n_iter_, k, t, cost, pre_cost, pc,
                   err, ret, log>>

NextST == SoftThresholdCall

SpecST == InitST /\ [][NextST]_vars

\* ------------------------------------------------------------------------
\* Reading the log of writes
\* ------------------------------------------------------------------------
Targets == 0..(n_targets - 1)
CostEvents(j) ==
    SelectSeq(log, LAMBDA e : e.k = j /\ e.op \in {"cost0", "cost"})
\* number of passes of the inner loop made for column j
ItersRun(j) == Len(CostEvents(j)) - 1
\* gap < tol in pass i of column j: |cost_i - cost_{i-1}| < tol
Hit(j, i) == GapBelow(CostEvents(j)[i + 2].val, CostEvents(j)[i + 1].val, tol)
NoHit(j) == \A i \in 0..(ItersRun(j) - 1) : ~Hit(j, i)
\* the z written by the last Z-update of column j, and the pass it was in
ZEvents(j) == SelectSeq(log, LAMBDA e : e.k = j /\ e.op = "Z")
LastZ(j) == ZEvents(j)[Len(ZEvents(j))]

\* ------------------------------------------------------------------------
\* C1: the count returned for a column is the 0-based index of the first
\* pass whose gap is below tol, or max_iter - 1 when no pass has one; there
\* is one count per target, each in 0..max_iter-1.
\* ------------------------------------------------------------------------
C1_IterationCount ==
    pc = "done" =>
        /\ Len(ret.n_iter) = n_targets
        /\ \A j \in Targets :
             LET c == ret.n_iter[j + 1]
             IN  /\ c \in 0..(max_iter - 1)
                 /\ ItersRun(j) = c + 1
                 /\ \A i \in 0..(c - 1) : ~Hit(j, i)
                 /\ (Hit(j, c) \/ c = max_iter - 1)

C1_Witness ==
    /\ pc = "done"
    /\ max_iter = 3
    /\ \E j \in Targets : ret.n_iter[j + 1] = 1 /\ Hit(j, 1) /\ ~Hit(j, 0)

\* ------------------------------------------------------------------------
\* C2 as stated: the count is max_iter - 1 exactly when no pass reached
\* gap < tol.
\* ------------------------------------------------------------------------
C2_Original ==
    pc = "done" =>
        \A j \in Targets : (ret.n_iter[j + 1] = max_iter - 1) <=> NoHit(j)

\* C2 amended: a column that never reaches gap < tol returns max_iter - 1,
\* and a count below max_iter - 1 means the tolerance was reached in that
\* pass; a count of max_iter - 1 is returned both by a column that never
\* reached the tolerance and by one that reached it in the last pass.
C2_Amended ==
    pc = "done" =>
        \A j \in Targets :
            LET c == ret.n_iter[j + 1]
            IN  /\ NoHit(j) => c = max_iter - 1
                /\ c < max_iter - 1 => Hit(j, c)
                /\ c = max_iter - 1 => (NoHit(j) \/ Hit(j, max_iter - 1))

C2_Witness ==
    /\ pc = "done"
    /\ max_iter >= 2
    /\ \E j \in Targets : ret.n_iter[j + 1] = max_iter - 1 /\ Hit(j, max_iter - 1)
    /\ \E j \in Targets : ret.n_iter[j + 1] = max_iter - 1 /\ NoHit(j)

\* ------------------------------------------------------------------------
\* C3 as stated: a solve aborts only when X'X/n + rho*D'D is singular.
\* ------------------------------------------------------------------------
C3_OnlySingularAborts ==
    pc = "raised" => Det(SystemMatrix) = RZero

\* ------------------------------------------------------------------------
\* C4: with X'X/n + rho*D'D singular the solve stops at the inversion with
\* LinAlgError, before any pass over a column; nothing is returned and
\* nothing runs after the failure.
\* ------------------------------------------------------------------------
C4_SingularFails ==
    /\ [](Det(SystemMatrix) = RZero /\ pc \notin {"init", "inv"}
            => /\ pc = "raised" /\ err = "LinAlgError"
               /\ ret = None /\ log = <<>> /\ n_iter_ = <<>>
               /\ inv_matrix = None)
    /\ [][pc # "raised"]_vars

C4_Witness ==
    /\ pc = "raised" /\ err = "LinAlgError"
    /\ Det(SystemMatrix) = RZero
    /\ \A i \in 1..NRows(D) : \A j \in 1..NCols(D) : D[i][j] = RZero

\* ------------------------------------------------------------------------
\* A solve of the single column yc: _admm on a response with one column
\* ------------------------------------------------------------------------
RECURSIVE SoloLoop(_, _, _, _, _)
SoloLoop(yc, zc, hc, c, tt) ==
    LET w1 == Dot(inv_matrix,
                  VAdd(VDivS(Dot(Transpose(X), yc), RI(n_samples)),
                       VScale(rho, Dot(Transpose(D), VSub(zc, VDivS(hc, rho))))))
        z1 == _soft_threshold(VAdd(Dot(D, w1), VDivS(hc, rho)), RDiv(alpha, rho))
        h1 == VAdd(hc, VScale(rho, VSub(Dot(D, w1), z1)))
        c1 == _cost_function(X, yc, w1, z1, alpha)
    IN  IF GapBelow(c1, c, tol) \/ tt + 1 >= max_iter
        THEN [z |-> z1, n |-> tt]
        ELSE SoloLoop(yc, z1, h1, c1, tt + 1)

Solo(yc) ==
    LET w0 == VDivS(Dot(Transpose(X), yc), RI(n_samples))
        z0 == Dot(D, w0)
        h0 == Arr([i \in 1..Len(w0) |-> RZero])
    IN  SoloLoop(yc, z0, h0, _cost_function(X, yc, w0, z0, alpha), 0)

\* a step of the pass over column k keeps the columns of the other targets
OtherColumnsKept ==
    pc \in {"upd_w", "upd_z", "upd_h", "after_cost", "append"} =>
        \A j \in Targets \ {k} :
            /\ Col(w_t', j + 1) = Col(w_t, j + 1)
            /\ Col(z_t', j + 1) = Col(z_t, j + 1)
            /\ Col(h_t', j + 1) = Col(h_t, j + 1)

\* ------------------------------------------------------------------------
\* C5: the z column and the count of column j equal those of a solve on the
\* single column Y[:, j]; a pass over column k leaves the w, z, h columns of
\* the other targets unchanged; column k starts from its columns of W0, Z0,
\* H0 whatever was processed before it.
\* ------------------------------------------------------------------------
C5_Independence ==
    /\ [](pc = "done" =>
            \A j \in Targets :
                /\ Col(z_t, j + 1) = Solo(Col(y, j + 1)).z
                /\ ret.n_iter[j + 1] = Solo(Col(y, j + 1)).n)
    /\ [](pc = "for_k" /\ k < n_targets =>
            /\ Col(w_t, k + 1) = InitW(k)
            /\ Col(z_t, k + 1) = InitZ(k)
            /\ Col(h_t, k + 1) = InitH(k))
    /\ [][OtherColumnsKept]_vars

C5_Witness ==
    /\ pc = "done"
    /\ n_targets >= 2
    /\ Col(z_t, 1) # Col(z_t, 2)
    /\ ret.n_iter[1] # ret.n_iter[2]
    /\ ret.n_iter[2] >= 1
    /\ Col(h_t, 1) # Col(h_t, 2)

\* ------------------------------------------------------------------------
\* C6 as stated: from initialization on, Z and H have the same shape,
\* (rows of D) x n_targets, and W, Z, H have n_targets columns.
\* ------------------------------------------------------------------------
C6_ShapesMatch ==
    pc # "init" =>
        /\ Shape2(z_t) = Shape2(h_t)
        /\ Shape2(z_t) = <<NRows(D), n_targets>>
        /\ NCols(w_t) = n_targets

\* ------------------------------------------------------------------------
\* C7 as stated: the result is the m x k matrix whose column j is the z
\* written by the last Z-update of column j, made in the pass whose index is
\* the returned count.
\* ------------------------------------------------------------------------
C7_Original ==
    pc = "done" =>
        /\ ret.coef.shape = <<NRows(D), n_targets>>
        /\ \A j \in Targets :
             /\ LastZ(j).t = ret.n_iter[j + 1]
             /\ \A i \in 1..NRows(D) :
                  ret.coef.data[(i - 1) * n_targets + j + 1] = LastZ(j).val[i]

\* C7 amended: the result is np.squeeze of that m x k matrix of final z
\* columns: same elements in row-major order, the axes of length 1 dropped
\* (shape (m,) for one target, (k,) for a one-row D, () for both).
C7_Amended ==
    pc = "done" =>
        /\ ret.coef.shape =
              (IF NRows(D) = 1 /\ n_targets = 1 THEN <<>>
               ELSE IF n_targets = 1 THEN <<NRows(D)>>
               ELSE IF NRows(D) = 1 THEN <<n_targets>>
               ELSE <<NRows(D), n_targets>>)
        /\ Len(ret.coef.data) = NRows(D) * n_targets
        /\ \A j \in Targets :
             /\ LastZ(j).t = ret.n_iter[j + 1]
             /\ \A i \in 1..NRows(D) :
                  ret.coef.data[(i - 1) * n_targets + j + 1] = LastZ(j).val[i]

C7_Witness ==
    /\ pc = "done"
    /\ n_targets = 1 /\ NRows(D) = 2
    /\ ret.coef.shape = <<2>>
    /\ ret.n_iter[1] >= 1
    /\ zcol(0) # wcol(0)

\* ------------------------------------------------------------------------
\* C8: for t >= 0, _soft_threshold maps each x to 0 when |x| <= t, to x - t
\* when x > t and to x + t when x < -t, in an array of the same length; so
\* S(-x, t) = -S(x, t) and S(x, 0) = x.
\* ------------------------------------------------------------------------
C8_SoftThreshold ==
    (pc = "idle" /\ st.at = "ret") =>
        /\ Len(st.out) = Len(st.x)
        /\ \A i \in 1..Len(st.x) :
             LET x == st.x[i]
                 th == st.thresh
             IN  /\ RLe(RAbs(x), th) => st.out[i] = RZero
                 /\ RLt(th, x) => st.out[i] = RSub(x, th)
                 /\ RLt(x, RNeg(th)) => st.out[i] = RAdd(x, th)
        /\ st.neg = VNeg(st.out)
        /\ st.zero = st.x

C8_Witness ==
    /\ pc = "idle" /\ st.at = "ret"
    /\ Len(st.x) = 2
    /\ RSign(st.thresh) > 0
    /\ RLt(st.x[1], RNeg(st.thresh)) /\ st.out[1] # RZero
    /\ RSign(st.x[2]) > 0 /\ RLe(st.x[2], st.thresh) /\ st.out[2] = RZero

\* ------------------------------------------------------------------------
\* C9: a pass writes w, then z, then h, then the cost.  w is computed from
\* the z and h of the previous pass (Z0, H0 in the first), z from the w just
\* written and the previous h, h from the w and z just written, and the
\* cost, compared with the cost before it, from the new w and z.
\* ------------------------------------------------------------------------
C9_UpdateOrder ==
    pc # "idle" =>
    \A i \in 1..Len(log) :
        LET e == log[i]
            first == (e.t = 0)
        IN  /\ e.op = "cost0" =>
                 e.val = _cost_function(X, ycol(e.k), InitW(e.k), InitZ(e.k), alpha)
            /\ e.op = "W" =>
                 /\ log[i - 1].op = (IF first THEN "cost0" ELSE "cost")
                 /\ log[i - 1].k = e.k /\ log[i - 1].t = e.t - 1
                 /\ ~first => log[i - 3].op = "Z" /\ log[i - 2].op = "H"
                 /\ e.val = WUpdate(ycol(e.k),
                                    IF first THEN InitZ(e.k) ELSE log[i - 3].val,
                                    IF first THEN InitH(e.k) ELSE log[i - 2].val)
            /\ e.op = "Z" =>
                 /\ log[i - 1].op = "W"
                 /\ log[i - 1].k = e.k /\ log[i - 1].t = e.t
                 /\ ~first => log[i - 3].op = "H"
                 /\ e.val = ZUpdate(log[i - 1].val,
                                    IF first THEN InitH(e.k) ELSE log[i - 3].val)
            /\ e.op = "H" =>
                 /\ log[i - 1].op = "Z" /\ log[i - 2].op = "W"
                 /\ log[i - 1].k = e.k /\ log[i - 1].t = e.t
                 /\ ~first => log[i - 4].op = "H"
                 /\ e.val = HUpdate(log[i - 2].val, log[i - 1].val,
                                    IF first THEN InitH(e.k) ELSE log[i - 4].val)
            /\ e.op = "cost" =>
                 /\ log[i - 1].op = "H" /\ log[i - 2].op = "Z"
                 /\ log[i - 3].op = "W"
                 /\ log[i - 1].k = e.k /\ log[i - 1].t = e.t
                 /\ e.val = _cost_function(X, ycol(e.k), log[i - 3].val,
                                           log[i - 2].val, alpha)
                 /\ i = Len(log) => cost = e.val /\ pre_cost = log[i - 4].val

C9_Witness ==
    /\ pc = "upd_w"
    /\ t = 2
    /\ log[Len(log)].op = "cost"
    /\ log[Len(log) - 1].val # log[Len(log) - 5].val
    /\ log[Len(log) - 2].val # log[Len(log) - 6].val
    /\ \E i \in 1..Len(hcol(k)) : hcol(k)[i] # RZero

\* ------------------------------------------------------------------------
\* C10: for a square D, after every H-update each element of h has
\* |h_i| <= alpha, and h_i = alpha * sign(z_i) where the new z_i is not 0;
\* with alpha = 0 the dual stays 0 and z = D.w after every pass.
\* ------------------------------------------------------------------------
C10_DualBound ==
    pc # "idle" =>
    \A i \in 1..Len(log) :
        (log[i].op = "H" /\ NRows(D) = NCols(D)) =>
            LET h == log[i].val
                z == log[i - 1].val
                w == log[i - 2].val
            IN  /\ \A e \in 1..Len(h) :
                     /\ RLe(RAbs(h[e]), alpha)
                     /\ z[e] # RZero => h[e] = RMul(alpha, RI(RSign(z[e])))
                /\ alpha = RZero =>
                     /\ \A e \in 1..Len(h) : h[e] = RZero
                     /\ z = Dot(D, w)

C10_Witness ==
    /\ pc = "after_cost"
    /\ NRows(D) = 2 /\ NCols(D) = 2
    /\ t >= 1
    /\ rho = RI(2) /\ alpha = RI(1)
    /\ \E a \in 1..2 : \E b \in 1..2 :
         /\ zcol(k)[a] # RZero
         /\ hcol(k)[a] = RMul(alpha, RI(RSign(zcol(k)[a])))
         /\ zcol(k)[b] = RZero
         /\ RLt(RAbs(hcol(k)[b]), alpha)
         /\ hcol(k)[b] # RZero

====
